---- MODULE Spec2Model ----
(***************************************************************************)
(* Model of the Express backend: the centralized error middleware          *)
(* (middleware/errorHandler.js), the resource controller, the validation   *)
(* middleware, the /api router and the Server bootstrap with its           *)
(* environment-derived configuration.                                      *)
(***************************************************************************)
EXTENDS Integers, Sequences, FiniteSets

VARIABLES env, srv, pc, req, res, calls, raised, chain

vars == <<env, srv, pc, req, res, calls, raised, chain>>

(***************************************************************************)
(* Bounds                                                                  *)
(***************************************************************************)
\* Number of declarative validation rules attached to a request.
MaxRules == 2

\* Number of times errorHandler is applied to one error object.
MaxHandlings == 2

(***************************************************************************)
(* JavaScript values                                                       *)
(***************************************************************************)
\* The undefined value of a string-valued property.
Undefined == "<undefined>"

\* An optional number is a sequence of length at most one.
NoNum == <<>>
Num(n) == <<n>>

\* Truthiness of a string-valued property (undefined and "" are falsy).
Truthy(s) == s \notin {Undefined, ""}

\* Truthiness of a number-valued property (undefined and 0 are falsy).
TruthyNum(n) == n # NoNum /\ n[1] # 0

(***************************************************************************)
(* Errors                                                                  *)
(***************************************************************************)
ErrorNames == {"Error", "ValidationError", "CastError", "JsonWebTokenError", "TokenExpiredError"}

KindNames == {"ValidationError", "CastError", "JsonWebTokenError", "TokenExpiredError"}

Failure(i) == [field |-> i, message |-> "invalid"]

RECURSIVE SeqOfSet(_)
SeqOfSet(S) ==
  IF S = {} THEN <<>>
  ELSE LET m == CHOOSE x \in S : \A y \in S : x <= y
       IN <<Failure(m)>> \o SeqOfSet(S \ {m})

\* The failure lists a rule evaluation can produce: one entry per violated
\* rule, in rule declaration order.
FailureLists == {SeqOfSet(S) : S \in SUBSET (1..MaxRules)}

ErrorValues ==
  { e \in [name : ErrorNames,
           message : {Undefined, "", "boom"},
           statusCode : {NoNum, Num(0), Num(404)},
           status : {NoNum, Num(403)},
           statusMessage : {Undefined, "custom"},
           stack : {Undefined, "trace"},
           hasDetails : BOOLEAN,
           details : FailureLists,
           isError : BOOLEAN] :
      /\ (e.name # "ValidationError" => ~e.hasDetails)
      /\ (~e.hasDetails => e.details = <<>>)
      /\ (e.hasDetails => e.details # <<>>)
      /\ (~e.isError => e.name = "Error" /\ e.stack = Undefined /\ e.statusMessage = Undefined)
      /\ (e.message = Undefined => e.statusMessage = Undefined) }

\* Errors a service function or a library call raises inside a handler.
ServiceErrors ==
  { e \in ErrorValues : /\ e.isError /\ e.stack = "trace" /\ e.statusMessage = Undefined
                        /\ e.status = NoNum /\ e.statusCode \in {NoNum, Num(404)}
                        /\ e.name \in {"Error", "CastError"} /\ e.message \in {"", "boom"} }

\* Errors raised after a handler has returned (a middleware that throws once
\* next() has come back).
LateErrors ==
  { e \in ErrorValues : /\ e.isError /\ e.stack = "trace" /\ e.statusMessage = Undefined
                        /\ e.status = NoNum /\ e.statusCode = NoNum /\ ~e.hasDetails
                        /\ e.name \in {"Error", "TokenExpiredError"} /\ e.message \in {"", "boom"} }

\* new Error('Error desconocido') with statusCode = 500
UnknownError ==
  [name |-> "Error", message |-> "Error desconocido", statusCode |-> Num(500),
   status |-> NoNum, statusMessage |-> Undefined, stack |-> "trace",
   hasDetails |-> FALSE, details |-> <<>>, isError |-> TRUE]

(***************************************************************************)
(* Response bodies                                                         *)
(***************************************************************************)
\* The error object of the envelope; keys holds the properties it has.
NoErrorObject == [keys |-> {}, code |-> 0, message |-> Undefined, details |-> <<>>, stack |-> Undefined]

\* A body: keys holds the top-level properties the object has.  error is an
\* object when errorIsObject, otherwise the string errorStr.
NoBody ==
  [keys |-> {}, success |-> FALSE, message |-> Undefined, data |-> Undefined,
   errors |-> <<>>, errorIsObject |-> FALSE, errorStr |-> Undefined,
   error |-> NoErrorObject]

\* JSON.stringify drops every property whose value is undefined.
JsonObject(b) ==
  LET dropTop == {k \in {"message", "data"} : b[k] = Undefined}
                 \cup (IF ~b.errorIsObject /\ b.errorStr = Undefined THEN {"error"} ELSE {})
      dropErr == {k \in {"message", "stack"} : b.error[k] = Undefined}
  IN [b EXCEPT !.keys = @ \ dropTop, !.error.keys = @ \ dropErr]

(***************************************************************************)
(* The response object of the request in progress                          *)
(***************************************************************************)
\* statusCode is the property res.status sets; wireStatus and body are what was
\* sent to the client; threw records a write that failed after the headers went.
FreshRes == [headersSent |-> FALSE, statusCode |-> 200, wireStatus |-> 0, body |-> NoBody, threw |-> FALSE]

Call(op, by) == [op |-> op, by |-> by]

\* res.status(code).json(body) called by component by.  Once the headers are
\* sent, res.json throws instead of writing.
ResWrite(r, code, body) ==
  IF r.headersSent
  THEN [r EXCEPT !.statusCode = code, !.threw = TRUE]
  ELSE [r EXCEPT !.statusCode = code, !.wireStatus = code, !.headersSent = TRUE,
                 !.body = JsonObject(body)]

ResCalls(by) == <<Call("res.status", by), Call("res.json", by)>>

(***************************************************************************)
(* middleware/errorHandler.js                                              *)
(***************************************************************************)
\* The status-to-message table (accents dropped from the literals).
getErrorMessage(statusCode) ==
  CASE statusCode = 400 -> "Solicitud invalida"
    [] statusCode = 401 -> "No autorizado"
    [] statusCode = 403 -> "Acceso prohibido"
    [] statusCode = 404 -> "Recurso no encontrado"
    [] statusCode = 409 -> "Conflicto de datos"
    [] statusCode = 422 -> "Datos no procesables"
    [] statusCode = 500 -> "Error interno del servidor"
    [] statusCode = 503 -> "Servicio no disponible"
    [] OTHER -> "Error desconocido"

\* const statusCode = err.statusCode || err.status || 500
StatusOf(err) ==
  IF TruthyNum(err.statusCode) THEN err.statusCode[1]
  ELSE IF TruthyNum(err.status) THEN err.status[1]
  ELSE 500

\* const statusMessage = err.statusMessage || getErrorMessage(statusCode)
StatusMessageOf(err) ==
  IF Truthy(err.statusMessage) THEN err.statusMessage ELSE getErrorMessage(StatusOf(err))

\* Variant of MessageOf that never looks at err.message.
MessageOfStatusOnly(err) == StatusMessageOf(err)

\* message: err.message || statusMessage
MessageOf(err) ==
  IF Truthy(err.message) THEN err.message ELSE StatusMessageOf(err)

\* Variant of StackExposed that hides the trace in production only.
StackExposedOutsideProduction(nodeEnv) == nodeEnv # "production"

\* process.env.NODE_ENV === 'development'
StackExposed(nodeEnv) == nodeEnv = "development"

\* The errorResponse object errorHandler builds, kind overrides applied.
errorResponse(err, nodeEnv) ==
  LET e0 == [keys |-> {"code", "message"} \cup (IF StackExposed(nodeEnv) THEN {"stack"} ELSE {}),
             code |-> StatusOf(err),
             message |-> MessageOf(err),
             details |-> <<>>,
             stack |-> IF StackExposed(nodeEnv) THEN err.stack ELSE Undefined]
      e1 == IF err.name = "ValidationError"
            THEN [e0 EXCEPT !.keys = @ \cup {"details"}, !.code = 400,
                            !.message = "Datos de entrada invalidos",
                            !.details = IF err.hasDetails THEN err.details ELSE <<>>]
            ELSE e0
      e2 == IF err.name = "CastError"
            THEN [e1 EXCEPT !.code = 400, !.message = "ID invalido"] ELSE e1
      e3 == IF err.name = "JsonWebTokenError"
            THEN [e2 EXCEPT !.code = 401, !.message = "Token invalido"] ELSE e2
      e4 == IF err.name = "TokenExpiredError"
            THEN [e3 EXCEPT !.code = 401, !.message = "Token expirado"] ELSE e3
  IN [NoBody EXCEPT !.keys = {"success", "timestamp", "path", "method", "error"},
                    !.success = FALSE, !.errorIsObject = TRUE, !.error = e4]

\* The status errorHandler passes to res.status.
SentStatus(err) == StatusOf(err)

\* errorHandler(err, req, res, next): res.status(statusCode).json(errorResponse)
errorHandler(err) ==
  /\ res' = ResWrite(res, SentStatus(err), errorResponse(err, env.NODE_ENV))
  /\ calls' = calls \o ResCalls("errorHandler")

\* What errorHandler hands to res.status and to res.json (the error object of
\* the envelope).
Passed(err) ==
  [status |-> SentStatus(err), error |-> errorResponse(err, env.NODE_ENV).error]

\* Variant of ErrAfter that writes the envelope's code back into the error.
ErrAfterCodeWritten(err) ==
  [err EXCEPT !.statusCode = Num(errorResponse(err, env.NODE_ENV).error.code)]

\* The error object once errorHandler has returned: errorHandler reads err and
\* assigns none of its fields.
ErrAfter(err) == err

\* globalErrorHandler(err, req, res, next)
globalErrorHandler(err) ==
  /\ srv.state = "listening"
  /\ pc \in {"idle", "done"}
  /\ pc = "done" => err \in LateErrors
  /\ chain' = [via |-> "globalErrorHandler", err |-> <<err>>, entrySent |-> res.headersSent,
                obj |-> <<IF ~res.headersSent /\ err.isError THEN ErrAfter(err) ELSE err>>,
                passed |-> IF res.headersSent THEN <<>>
                           ELSE <<Passed(IF err.isError THEN err ELSE UnknownError)>>]
  /\ IF res.headersSent
     THEN /\ calls' = Append(calls, Call("next(err)", "globalErrorHandler"))
          /\ res' = res
     ELSE IF err.isError THEN errorHandler(err) ELSE errorHandler(UnknownError)
  /\ pc' = "handled"
  /\ UNCHANGED <<env, srv, req, raised>>

\* The chain Server.initializeErrorHandling installs: errorLogger, then
\* errorHandler.
ServerErrorChain(err) ==
  /\ srv.state = "listening"
  /\ pc \in {"idle", "done"}
  /\ pc = "done" => err \in LateErrors
  /\ chain' = [via |-> "Server", err |-> <<err>>, entrySent |-> res.headersSent,
                obj |-> <<ErrAfter(err)>>, passed |-> <<Passed(err)>>]
  /\ errorHandler(err)
  /\ pc' = "handled"
  /\ UNCHANGED <<env, srv, req, raised>>

\* errorHandler applied once more to the same error object, as the previous
\* call left it, for the same request and response.
errorHandlerAgain ==
  /\ pc = "handled"
  /\ chain.via = "Server"
  /\ Len(chain.passed) < MaxHandlings
  /\ chain' = [chain EXCEPT !.obj = <<ErrAfter(chain.obj[1])>>,
                            !.passed = Append(@, Passed(chain.obj[1]))]
  /\ errorHandler(chain.obj[1])
  /\ UNCHANGED <<env, srv, pc, req, raised>>

(***************************************************************************)
(* The resource controller                                                 *)
(***************************************************************************)
ServiceFns == {"getAllItems", "getItemById", "createItem", "updateItem", "deleteItem"}

\* Route parameters: absent, empty, non-numeric, numeric, blank.
Ids == {Undefined, "", "abc", "12", " "}

\* isNaN(id): Number("") and Number(" ") are 0, Number("abc") and
\* Number(undefined) are NaN.
IsNaN(id) == id \in {Undefined, "abc"}

\* !id || isNaN(id)
InvalidId(id) == ~Truthy(id) \/ IsNaN(id)

\* What validationResult(req) gives: it throws (err non-empty), or it is the
\* list of failures.
ValidationResults ==
  {[err |-> <<>>, failures |-> f] : f \in FailureLists}
  \cup {[err |-> <<e>>, failures |-> <<>>] : e \in {x \in ServiceErrors : x.name = "Error" /\ x.statusCode = NoNum}}

\* How an awaited service call settles.
Outcomes ==
  {[kind |-> k, err |-> <<>>] : k \in {"value", "null"}}
  \cup {[kind |-> "reject", err |-> <<e>>] : e \in ServiceErrors}

\* TypeError raised by reading a property of null
NullTypeError ==
  [name |-> "TypeError", message |-> "Cannot read properties of null", statusCode |-> NoNum,
   status |-> NoNum, statusMessage |-> Undefined, stack |-> "trace",
   hasDetails |-> FALSE, details |-> <<>>, isError |-> TRUE]

NoReq == [handler |-> "none", id |-> Undefined, failures |-> <<>>]

\* { success: false, message: 'Invalid ID parameter' }
InvalidIdBody ==
  [NoBody EXCEPT !.keys = {"success", "message"}, !.success = FALSE,
                 !.message = "Invalid ID parameter"]

\* { success: false, message: 'Validation failed', errors: errors.array() }
ValidationFailedBody(failures) ==
  [NoBody EXCEPT !.keys = {"success", "message", "errors"}, !.success = FALSE,
                 !.message = "Validation failed", !.errors = failures]

\* { success: false, message: 'Item not found' }
NotFoundBody ==
  [NoBody EXCEPT !.keys = {"success", "message"}, !.success = FALSE,
                 !.message = "Item not found"]

\* { success: false, message: <msg>, error: error.message }
CaughtBody(msg, e) ==
  [NoBody EXCEPT !.keys = {"success", "message", "error"}, !.success = FALSE,
                 !.message = msg, !.errorStr = e.message]

\* { success: true, data: <data>, message: <msg> } and the optional pagination
SuccessBody(data, msg, extra) ==
  [NoBody EXCEPT !.keys = {"success", "data", "message"} \cup extra, !.success = TRUE,
                 !.data = data, !.message = msg]

\* A handler answers and returns.
Respond(h, code, body) ==
  /\ res' = ResWrite(res, code, body)
  /\ calls' = calls \o ResCalls(h)
  /\ pc' = "done"

\* The catch block of a handler: console.error, then the handler's own 500.
Catch(h, e) ==
  /\ raised' = <<e>>
  /\ Respond(h, 500, CaughtBody("Internal server error", e))

\* A handler invokes a service function and suspends on the await.
Invoke(h, fn) ==
  /\ calls' = Append(calls, Call(fn, h))
  /\ pc' = "await"
  /\ UNCHANGED <<res, raised>>

Idle == srv.state = "listening" /\ pc = "idle"

Awaiting(h) == pc = "await" /\ req.handler = h

\* getAllItemsHandler up to its await
getAllItemsHandler ==
  /\ Idle
  /\ req' = [NoReq EXCEPT !.handler = "getAllItemsHandler"]
  /\ Invoke("getAllItemsHandler", "getAllItems")
  /\ UNCHANGED <<env, srv, chain>>

\* getAllItemsHandler from its await on
getAllItemsResume(o) ==
  /\ Awaiting("getAllItemsHandler")
  /\ CASE o.kind = "value" ->
            /\ Respond("getAllItemsHandler", 200,
                       SuccessBody("items", "Items retrieved successfully", {"pagination"}))
            /\ UNCHANGED raised
       [] o.kind = "null" -> Catch("getAllItemsHandler", NullTypeError)
       [] o.kind = "reject" -> Catch("getAllItemsHandler", o.err[1])
  /\ UNCHANGED <<env, srv, req, chain>>

\* getItemByIdHandler up to its await
getItemByIdHandler(id) ==
  /\ Idle
  /\ req' = [NoReq EXCEPT !.handler = "getItemByIdHandler", !.id = id]
  /\ IF InvalidId(id)
     THEN Respond("getItemByIdHandler", 400, InvalidIdBody) /\ UNCHANGED raised
     ELSE Invoke("getItemByIdHandler", "getItemById")
  /\ UNCHANGED <<env, srv, chain>>

\* getItemByIdHandler from its await on
getItemByIdResume(o) ==
  /\ Awaiting("getItemByIdHandler")
  /\ CASE o.kind = "value" ->
            /\ Respond("getItemByIdHandler", 200, SuccessBody("item", "Item retrieved successfully", {}))
            /\ UNCHANGED raised
       [] o.kind = "null" ->
            Respond("getItemByIdHandler", 404, NotFoundBody) /\ UNCHANGED raised
       [] o.kind = "reject" -> Catch("getItemByIdHandler", o.err[1])
  /\ UNCHANGED <<env, srv, req, chain>>

\* createItemHandler up to its await
createItemHandler(v) ==
  /\ Idle
  /\ req' = [NoReq EXCEPT !.handler = "createItemHandler", !.failures = v.failures]
  /\ IF v.err # <<>> THEN Catch("createItemHandler", v.err[1])
     ELSE IF v.failures # <<>>
     THEN Respond("createItemHandler", 400, ValidationFailedBody(v.failures)) /\ UNCHANGED raised
     ELSE Invoke("createItemHandler", "createItem")
  /\ UNCHANGED <<env, srv, chain>>

\* createItemHandler from its await on
createItemResume(o) ==
  /\ Awaiting("createItemHandler")
  /\ CASE o.kind = "value" ->
            /\ Respond("createItemHandler", 201, SuccessBody("item", "Item created successfully", {}))
            /\ UNCHANGED raised
       [] o.kind = "null" ->
            /\ Respond("createItemHandler", 201, SuccessBody("null", "Item created successfully", {}))
            /\ UNCHANGED raised
       [] o.kind = "reject" -> Catch("createItemHandler", o.err[1])
  /\ UNCHANGED <<env, srv, req, chain>>

\* Variant of updateItemHandler that reads the validation result only after
\* the service call.
updateItemHandlerLateValidation(id, v) ==
  /\ Idle
  /\ req' = [NoReq EXCEPT !.handler = "updateItemHandler", !.id = id, !.failures = v.failures]
  /\ IF InvalidId(id)
     THEN Respond("updateItemHandler", 400, InvalidIdBody) /\ UNCHANGED raised
     ELSE Invoke("updateItemHandler", "updateItem")
  /\ UNCHANGED <<env, srv, chain>>

\* updateItemHandler up to its await
updateItemHandler(id, v) ==
  /\ Idle
  /\ req' = [NoReq EXCEPT !.handler = "updateItemHandler", !.id = id, !.failures = v.failures]
  /\ IF InvalidId(id)
     THEN Respond("updateItemHandler", 400, InvalidIdBody) /\ UNCHANGED raised
     ELSE IF v.err # <<>> THEN Catch("updateItemHandler", v.err[1])
     ELSE IF v.failures # <<>>
     THEN Respond("updateItemHandler", 400, ValidationFailedBody(v.failures)) /\ UNCHANGED raised
     ELSE Invoke("updateItemHandler", "updateItem")
  /\ UNCHANGED <<env, srv, chain>>

\* updateItemHandler from its await on
updateItemResume(o) ==
  /\ Awaiting("updateItemHandler")
  /\ CASE o.kind = "value" ->
            /\ Respond("updateItemHandler", 200, SuccessBody("item", "Item updated successfully", {}))
            /\ UNCHANGED raised
       [] o.kind = "null" ->
            Respond("updateItemHandler", 404, NotFoundBody) /\ UNCHANGED raised
       [] o.kind = "reject" -> Catch("updateItemHandler", o.err[1])
  /\ UNCHANGED <<env, srv, req, chain>>

\* deleteItemHandler up to its await
deleteItemHandler(id) ==
  /\ Idle
  /\ req' = [NoReq EXCEPT !.handler = "deleteItemHandler", !.id = id]
  /\ IF InvalidId(id)
     THEN Respond("deleteItemHandler", 400, InvalidIdBody) /\ UNCHANGED raised
     ELSE Invoke("deleteItemHandler", "deleteItem")
  /\ UNCHANGED <<env, srv, chain>>

\* deleteItemHandler from its await on
deleteItemResume(o) ==
  /\ Awaiting("deleteItemHandler")
  /\ CASE o.kind = "value" ->
            /\ Respond("deleteItemHandler", 200,
                       [NoBody EXCEPT !.keys = {"success", "message"}, !.success = TRUE,
                                      !.message = "Item deleted successfully"])
            /\ UNCHANGED raised
       [] o.kind = "null" ->
            Respond("deleteItemHandler", 404, NotFoundBody) /\ UNCHANGED raised
       [] o.kind = "reject" -> Catch("deleteItemHandler", o.err[1])
  /\ UNCHANGED <<env, srv, req, chain>>

ResourceHandlers ==
  {"getAllItemsHandler", "getItemByIdHandler", "createItemHandler", "updateItemHandler",
   "deleteItemHandler"}

(***************************************************************************)
(* The validation middleware                                               *)
(***************************************************************************)
\* validateRequest(req, res, next); nextErr is the error next() throws, if any.
validateRequest(v, nextErr) ==
  /\ Idle
  /\ req' = [NoReq EXCEPT !.handler = "validateRequest", !.failures = v.failures]
  /\ IF v.err # <<>>
     THEN /\ raised' = <<v.err[1]>>
          /\ Respond("validateRequest", 500,
                     CaughtBody("Internal server error during validation", v.err[1]))
     ELSE IF v.failures # <<>>
     THEN Respond("validateRequest", 400, ValidationFailedBody(v.failures)) /\ UNCHANGED raised
     ELSE IF nextErr # <<>>
     THEN /\ raised' = nextErr
          /\ res' = ResWrite(res, 500,
                             CaughtBody("Internal server error during validation", nextErr[1]))
          /\ calls' = Append(calls, Call("next", "validateRequest")) \o ResCalls("validateRequest")
          /\ pc' = "done"
     ELSE /\ calls' = Append(calls, Call("next", "validateRequest"))
          /\ pc' = "done"
          /\ UNCHANGED <<res, raised>>
  /\ UNCHANGED <<env, srv, chain>>

(***************************************************************************)
(* routes/index.js and Server.initializeRoutes                             *)
(***************************************************************************)
\* new Error('Error de prueba intencional')
IntentionalError ==
  [name |-> "Error", message |-> "Error de prueba intencional", statusCode |-> NoNum,
   status |-> NoNum, statusMessage |-> Undefined, stack |-> "trace",
   hasDetails |-> FALSE, details |-> <<>>, isError |-> TRUE]

\* GET /api/
apiRoot ==
  /\ Idle
  /\ req' = [NoReq EXCEPT !.handler = "apiRoot"]
  /\ Respond("apiRoot", 200,
             [NoBody EXCEPT !.keys = {"message", "timestamp"}, !.message = "Bienvenido a la API"])
  /\ UNCHANGED <<env, srv, raised, chain>>

\* GET /api/health
apiHealth ==
  /\ Idle
  /\ req' = [NoReq EXCEPT !.handler = "apiHealth"]
  /\ Respond("apiHealth", 200, [NoBody EXCEPT !.keys = {"status", "timestamp"}])
  /\ UNCHANGED <<env, srv, raised, chain>>

\* GET /api/error
apiError ==
  /\ Idle
  /\ req' = [NoReq EXCEPT !.handler = "apiError"]
  /\ raised' = <<IntentionalError>>
  /\ Respond("apiError", 500,
             [NoBody EXCEPT !.keys = {"error", "message"}, !.errorStr = "Error de prueba",
                            !.message = IntentionalError.message])
  /\ UNCHANGED <<env, srv, chain>>

\* GET /health
health ==
  /\ Idle
  /\ req' = [NoReq EXCEPT !.handler = "health"]
  /\ Respond("health", 200, [NoBody EXCEPT !.keys = {"status", "timestamp", "uptime"}])
  /\ UNCHANGED <<env, srv, raised, chain>>

\* The '*' route
notFound ==
  /\ Idle
  /\ req' = [NoReq EXCEPT !.handler = "notFound"]
  /\ Respond("notFound", 404,
             [NoBody EXCEPT !.keys = {"error", "path"}, !.errorStr = "Ruta no encontrada"])
  /\ UNCHANGED <<env, srv, raised, chain>>

NoChain == [via |-> "none", err |-> <<>>, entrySent |-> FALSE, obj |-> <<>>, passed |-> <<>>]

\* The request is over; the next one starts with a fresh response object.
NextRequest ==
  /\ pc \in {"done", "handled"}
  /\ pc' = "idle"
  /\ req' = NoReq
  /\ res' = FreshRes
  /\ calls' = <<>>
  /\ raised' = <<>>
  /\ chain' = NoChain
  /\ UNCHANGED <<env, srv>>

(***************************************************************************)
(* Configuration and Server bootstrap                                      *)
(***************************************************************************)
RequiredVars == {"NODE_ENV", "PORT", "DATABASE_URL", "JWT_SECRET"}

Envs ==
  [NODE_ENV : {Undefined, "development", "production", "test"},
   PORT : {Undefined, "", "3000", "99999"},
   DATABASE_URL : {Undefined, "mongodb://db"},
   JWT_SECRET : {Undefined, "secret"}]

\* requiredVars.filter(varName => !env[varName])
missingVars(e) == {v \in RequiredVars : ~Truthy(e[v])}

\* validateEnv(env) throws
validateEnvThrows(e) == missingVars(e) # {}

\* Ports net.Server.listen rejects with a synchronous RangeError.
BadPort(p) == p = "99999"

Unloaded == [state |-> "loaded", port |-> Undefined, exitCode |-> <<>>, config |-> "none"]

\* getConfig(); fsOk tells whether the upload directory can be reached or made.
getConfig(fsOk) ==
  /\ srv.state # "exited"
  /\ srv.config = "none"
  /\ srv' = [srv EXCEPT !.config = IF validateEnvThrows(env) \/ ~fsOk THEN "failed" ELSE "loaded"]
  /\ UNCHANGED <<env, pc, req, res, calls, raised, chain>>

\* new Server(): this.port = process.env.PORT || 3000, then the middleware,
\* the routes and the error handling are installed.
ServerConstructor ==
  /\ srv.state = "loaded"
  /\ srv' = [srv EXCEPT !.state = "constructed",
                        !.port = IF Truthy(env.PORT) THEN env.PORT ELSE "3000"]
  /\ UNCHANGED <<env, pc, req, res, calls, raised, chain>>

\* Server.start(): app.listen(this.port); a synchronous throw exits with 1.
ServerStart ==
  /\ srv.state = "constructed"
  /\ srv' = IF BadPort(srv.port)
            THEN [srv EXCEPT !.state = "exited", !.exitCode = <<1>>]
            ELSE [srv EXCEPT !.state = "listening"]
  /\ UNCHANGED <<env, pc, req, res, calls, raised, chain>>

\* SIGTERM or SIGINT: server.close, then process.exit(0)
Signal ==
  /\ srv.state = "listening"
  /\ pc = "idle"
  /\ srv' = [srv EXCEPT !.state = "exited", !.exitCode = <<0>>]
  /\ UNCHANGED <<env, pc, req, res, calls, raised, chain>>

(***************************************************************************)
(* Specifications                                                          *)
(***************************************************************************)
RequestInit ==
  /\ pc = "idle"
  /\ req = NoReq
  /\ res = FreshRes
  /\ calls = <<>>
  /\ raised = <<>>
  /\ chain = NoChain

\* A listening server whose required variables are all set.
Init ==
  /\ env \in {e \in Envs : e.PORT = "3000" /\ e.DATABASE_URL # Undefined /\ e.JWT_SECRET # Undefined}
  /\ srv = [Unloaded EXCEPT !.state = "listening", !.port = "3000"]
  /\ RequestInit

Next ==
  \/ getAllItemsHandler
  \/ \E o \in Outcomes : getAllItemsResume(o)
  \/ \E id \in Ids : getItemByIdHandler(id)
  \/ \E o \in Outcomes : getItemByIdResume(o)
  \/ \E v \in ValidationResults : createItemHandler(v)
  \/ \E o \in Outcomes : createItemResume(o)
  \/ \E id \in Ids, v \in ValidationResults : updateItemHandler(id, v)
  \/ \E o \in Outcomes : updateItemResume(o)
  \/ \E id \in Ids : deleteItemHandler(id)
  \/ \E o \in Outcomes : deleteItemResume(o)
  \/ \E v \in ValidationResults, n \in {<<>>, <<IntentionalError>>} : validateRequest(v, n)
  \/ apiRoot
  \/ apiHealth
  \/ apiError
  \/ health
  \/ notFound
  \/ \E e \in ErrorValues : ServerErrorChain(e)
  \/ \E e \in ErrorValues : globalErrorHandler(e)
  \/ errorHandlerAgain
  \/ NextRequest

Spec == Init /\ [][Next]_vars

\* The process from module load to listening or exit.
BootInit ==
  /\ env \in Envs
  /\ srv = Unloaded
  /\ RequestInit

BootNext ==
  \/ \E fsOk \in BOOLEAN : getConfig(fsOk)
  \/ ServerConstructor
  \/ ServerStart
  \/ Signal

SpecBoot == BootInit /\ [][BootNext]_vars

(***************************************************************************)
(* Properties                                                              *)
(***************************************************************************)
\* errorHandler has just answered a request nobody had answered before.
ErrorHandlerAnswered == pc = "handled" /\ ~chain.entrySent

\* The error errorHandler was given.
HandledErr ==
  IF chain.via = "globalErrorHandler" /\ ~chain.err[1].isError THEN UnknownError
  ELSE chain.err[1]

ForcedCode(name) == IF name \in {"ValidationError", "CastError"} THEN 400 ELSE 401

\* C1: every TokenExpiredError that reaches errorHandler is answered with HTTP
\* status 401 and the fixed expired-token message in error.message.
C1_TokenExpiredIs401 ==
  (ErrorHandlerAnswered /\ HandledErr.name = "TokenExpiredError")
    => /\ res.wireStatus = 401
       /\ res.body.error.message = "Token expirado"

\* C2: the HTTP status errorHandler sends equals error.code of the envelope, and
\* for the four kind names both equal the kind's forced code.
C2_StatusEqualsCode ==
  ErrorHandlerAnswered
    => /\ res.wireStatus = res.body.error.code
       /\ (HandledErr.name \in KindNames
             => res.wireStatus = ForcedCode(HandledErr.name)
                /\ res.body.error.code = ForcedCode(HandledErr.name))

\* The handler obtained a non-empty validation result and has returned.
ValidationRejected ==
  /\ pc = "done"
  /\ req.handler \in {"createItemHandler", "updateItemHandler", "validateRequest"}
  /\ req.handler = "updateItemHandler" => ~InvalidId(req.id)
  /\ req.failures # <<>>

\* C3: a non-empty validation result is answered with status 400 and the error
\* envelope: error.code 400, the fixed validation message, and error.details
\* with one entry per violated rule.
C3_ValidationEnvelope ==
  ValidationRejected
    => /\ res.wireStatus = 400
       /\ "error" \in res.body.keys
       /\ res.body.errorIsObject
       /\ res.body.error.code = 400
       /\ res.body.error.message \in {"Validation failed", "Datos de entrada invalidos"}
       /\ "details" \in res.body.error.keys
       /\ Len(res.body.error.details) = Len(req.failures)

\* The request carries input a resource handler rejects.
InvalidInput ==
  \/ req.handler \in {"getItemByIdHandler", "updateItemHandler", "deleteItemHandler"}
       /\ InvalidId(req.id)
  \/ req.handler \in {"createItemHandler", "updateItemHandler"} /\ req.failures # <<>>

ServiceInvoked == \E i \in 1..Len(calls) : calls[i].op \in ServiceFns

\* C4: a request a resource handler rejects for invalid input gets its 400
\* while no service function has been invoked, and none is invoked for it
\* afterwards either.
C4_RejectBeforeService ==
  InvalidInput
    => /\ ~ServiceInvoked
       /\ pc # "await"
       /\ pc = "done" => res.wireStatus = 400 /\ calls = ResCalls(req.handler)

C4_Witness ==
  /\ pc = "done"
  /\ req.handler = "updateItemHandler"
  /\ ~InvalidId(req.id)
  /\ req.failures # <<>>
  /\ res.wireStatus = 400
  /\ ~ServiceInvoked

\* C5: an error raised while a resource handler runs is rendered by
\* errorHandler; the handler writes no response of its own for it.
C5_ForwardedToErrorHandler ==
  (pc = "done" /\ req.handler \in ResourceHandlers /\ raised # <<>>)
    => /\ \A i \in 1..Len(calls) : calls[i].by # req.handler \/ calls[i].op \in ServiceFns
       /\ \E i \in 1..Len(calls) : calls[i].by = "errorHandler"

\* C6: in the chain Server installs, an error arriving after the response was
\* sent is passed to next(err) and res.status/res.json are not called.
C6_NoSecondWrite ==
  (pc = "handled" /\ chain.via = "Server" /\ chain.entrySent)
    => /\ \A i \in 1..Len(calls) : calls[i].by # "errorHandler"
       /\ \E i \in 1..Len(calls) : calls[i].op = "next(err)"
       /\ ~res.threw

\* One of the two envelopes: success true with data and no error, or success
\* false with an error object {code, message, ...} and no data.
IsEnvelope(b) ==
  /\ "success" \in b.keys
  /\ \/ b.success /\ "data" \in b.keys /\ "error" \notin b.keys
     \/ /\ ~b.success
        /\ "error" \in b.keys
        /\ b.errorIsObject
        /\ {"code", "message"} \subseteq b.error.keys
        /\ "data" \notin b.keys

\* C7: every response body the server sends is one of the two envelopes.
C7_AlwaysEnvelope == res.headersSent => IsEnvelope(res.body)

\* The error carries no statusCode, no status and none of the kind names.
Unannotated(e) == e.statusCode = NoNum /\ e.status = NoNum /\ e.name \notin KindNames

\* C8 as stated: an unannotated error is answered with status 500 and the 500
\* entry of the status-to-message table, whatever else the error carries.
C8_Original ==
  (ErrorHandlerAnswered /\ Unannotated(HandledErr))
    => /\ res.wireStatus = 500
       /\ res.body.error.message = getErrorMessage(500)

\* C8 amended: an unannotated error is answered with status 500 and error.code
\* 500; error.message is the error's own message when non-empty, else its
\* statusMessage when non-empty, and only otherwise the table's 500 entry.
C8_DefaultStatusAndMessage ==
  (ErrorHandlerAnswered /\ Unannotated(HandledErr))
    => /\ res.wireStatus = 500
       /\ res.body.error.code = 500
       /\ res.body.error.message =
            (IF HandledErr.message \notin {Undefined, ""} THEN HandledErr.message
             ELSE IF HandledErr.statusMessage \notin {Undefined, ""} THEN HandledErr.statusMessage
             ELSE "Error interno del servidor")

C8_Witness ==
  /\ ErrorHandlerAnswered
  /\ Unannotated(HandledErr)
  /\ HandledErr.message = Undefined
  /\ res.wireStatus = 500
  /\ res.body.error.message = "Error interno del servidor"

\* C9 as stated: no stack field in production mode, and a stack field in every
\* other mode whenever the error carries a trace.
C9_Original ==
  ErrorHandlerAnswered
    => /\ env.NODE_ENV = "production" => "stack" \notin res.body.error.keys
       /\ (env.NODE_ENV # "production" /\ HandledErr.stack # Undefined)
            => "stack" \in res.body.error.keys

\* C9 amended: the envelope has no stack field in production mode nor in any
\* other mode than development (test, NODE_ENV unset); in development mode it
\* has the stack field whenever the error carries a trace.
C9_StackOnlyInDevelopment ==
  ErrorHandlerAnswered
    => /\ env.NODE_ENV # "development"
            => "stack" \notin res.body.error.keys /\ res.body.error.stack = Undefined
       /\ (env.NODE_ENV = "development" /\ HandledErr.stack # Undefined)
            => "stack" \in res.body.error.keys /\ res.body.error.stack = HandledErr.stack

C9_Witness ==
  /\ ErrorHandlerAnswered
  /\ env.NODE_ENV = "development"
  /\ HandledErr.stack = "trace"
  /\ "stack" \in res.body.error.keys
  /\ res.body.error.stack = "trace"

\* C10: with a required variable missing or empty, constructing and starting
\* Server never brings the server to listen.
C10_MissingEnvIsFatal == missingVars(env) # {} => srv.state # "listening"

\* What a classification consists of: HTTP status, error.code, error.message
\* and error.details.
Classified(p) ==
  [status |-> p.status, code |-> p.error.code, message |-> p.error.message,
   hasDetails |-> "details" \in p.error.keys, details |-> p.error.details]

C12_RespondXorNext ==
  (pc = "done" /\ req.handler = "validateRequest")
    => LET sent == Cardinality({i \in 1..Len(calls) :
                                  calls[i] = Call("res.json", "validateRequest")})
           nexts == Cardinality({i \in 1..Len(calls) :
                                   calls[i] = Call("next", "validateRequest")})
       IN (sent = 1 /\ nexts = 0) \/ (sent = 0 /\ nexts = 1)

====
